---- MODULE Spec2Model ----
(***************************************************************************)
(* Night session controller of the DFN camera station                      *)
(* (interval_control_lin.py).  One process, main_function, walks through   *)
(* the waiting loop, the evening twilight block, the night block, the      *)
(* morning twilight block and the sunrise shutdown.  Time is counted in    *)
(* seconds from the start of the program and advances only in the sleeps   *)
(* of the code.  The gphoto2 tether of the night is a second process that  *)
(* can exit on its own at any time.                                        *)
(***************************************************************************)
EXTENDS Integers, Sequences, FiniteSets, TLC

VARIABLES
    pc,                      \* position of main_function
    phase,                   \* block of main_function that has been entered
    now,                     \* datetime.datetime.now(), seconds
    test_time,               \* argument of main_function
    cfg,                     \* config_dict entries that are only read
    gps_lock,                \* config_dict['station']['gps_lock']
    sunset,                  \* the four boundaries of main_function
    sunset_after_twilight,
    sunrise_before_twilight,
    sunrise,
    lastCompute,             \* what the last boundary computation did
    recomputes,              \* number of recomputations made in the wait loop
    hw,                      \* state of the microcontroller-driven hardware
    ser,                     \* the serial channel of main_function
    cmds,                    \* the calls made by the last step of main_function
    afterFull,               \* the calls made since a full disk was detected
    polls,                   \* passes of the waiting loop made so far
    tether,                  \* the night tether subprocess
    tetherSignals,           \* signals sent to the night tether
    launches,                \* every attempt to start a gphoto2 tether
    cloud_status_internal,   \* status remembered from the previous iteration
    nightLog,                \* one record per iteration of the running night loop
    lastHandle,              \* what the last handle_new_image call did
    imgfile,                 \* what the last acquisition returned
    diskFullSeen,            \* handle_new_image has detected a full disk
    result                   \* how main_function ended

vars == <<pc, phase, now, test_time, cfg, gps_lock, sunset,
          sunset_after_twilight, sunrise_before_twilight, sunrise,
          lastCompute, recomputes, hw, ser, cmds, afterFull, polls, tether,
          tetherSignals, launches, cloud_status_internal, nightLog, lastHandle,
          imgfile, diskFullSeen, result>>

----------------------------------------------------------------------------
(* Program constants.                                                      *)

CLOUDY == 0

CLEARING == 1

CLEAR == 2

\* time.sleep(30) of the waiting loop
PollSleep == 30

\* timedelta(seconds=30) from now: the sunset of a forced immediate start
\* and of a test run
GraceSeconds == 30

\* timedelta(minutes=10) added to sunset / taken from sunrise
TwilightMinutes == 10

\* interval_time = '180' of a test run
TestInterval == 180

\* test_time of "python interval_control_lin.py test"
DefaultTestTime == 180

\* cloud_status_internal = -3 before the first night iteration
InitialInternalStatus == 0 - 3

\* the sleeps between the waiting loop and the evening block: 4 x 1 s for
\* the leostick status reads, 10 s before switching on, 1 s after set_time
SwitchOnSleep == 1 + 1 + 1 + 1 + 10 + 1

\* time.sleep(5) after the night loop
NightExitSleep == 5

\* time.sleep(10) before the jobs are joined, in both shutdown paths
DrainSleep == 10

\* time.sleep(60) before the program exits
ExitSleep == 60

----------------------------------------------------------------------------
(* Bounds of the model.                                                    *)

\* config_dict['internal']['sun_leeway'] is drawn from 0, 10, ... minutes,
\* MaxLeewaySteps steps of ten minutes at most
MaxLeewaySteps == 1

\* a GPS query of the waiting loop can return a lock only in the first
\* MaxFixPolls passes of the loop
MaxFixPolls == 2

\* nightLog keeps the records of the last MaxNightLog night iterations
MaxNightLog == 5

\* instants generate_sun_and_moon can return for the sunset: shortly after
\* the start of the program, or a sunset that lies after the sunrise
\* (program started during the night, the next sunset is tomorrow's)
SunsetTimes == {60, 3000}

\* instants generate_sun_and_moon can return for the sunrise
SunriseTimes == {600, 1500, 2700}

\* values of config_dict['internal']['sun_leeway'], minutes
LeewayValues == {10 * k : k \in 0..MaxLeewaySteps}

\* values of test_time main_function is called with: a normal run, the
\* default test of 180 s and a test of 240 s
TestTimes == {0, DefaultTestTime, 240}

\* values cc.read_cloud_status can return: the three known ones and one
\* that is none of them
CloudValues == {CLOUDY, CLEARING, CLEAR, 0 - 1}

\* what dfn.get_latest_imagefile can return: no file, or a file of a kind
ImgKinds == {"missing", "jpg", "thumb.jpg", "raw", "cloudy_img"}

\* the acquisition procedures are called at most MaxAcqCalls times when
\* they are run on their own
MaxAcqCalls == 2

\* durations of dfnstation.cfg the acquisition procedures are run with on
\* their own, seconds
AcqIntervals == {0, 1, 180, 300}

\* the configurations of dfnstation.cfg the model runs
Configs ==
    {[sun_leeway |-> l,
      time_checking_clear |-> 300,
      time_checking_clearing |-> 360,
      time_checking_cloudy |-> 420,
      video_device |-> (l = 0),
      clearing_quality |-> "2",
      event_detect |-> "1"] : l \in LeewayValues}

----------------------------------------------------------------------------
(* Helpers.                                                                *)

\* the calls c are made by a step of main_function
Calls(c) ==
    /\ cmds' = c
    /\ afterFull' = IF diskFullSeen THEN afterFull \o c ELSE afterFull

RECURSIVE Count(_, _)
Count(s, x) ==
    IF s = <<>> THEN 0
    ELSE (IF Head(s) = x THEN 1 ELSE 0) + Count(Tail(s), x)

----------------------------------------------------------------------------
(* Boundary computation: generate_sun_and_moon, the leeway, the twilight   *)
(* margin, the dummy values of a test run and the missed-sunset override.  *)
(* The same code stands twice in main_function, before the waiting loop    *)
(* and inside it.                                                          *)

\* variant of MissedSunset: the sunset is compared with the start of the
\* morning twilight instead of the sunrise
MissedSunset_Twilight(ss, sr, sbt) == ss >= sbt

\* sunset >= sunrise of "Handle missed sunset, force an immediate start"
MissedSunset(ss, sr, sbt) == ss >= sr

\* variant of Leeway: the minutes of the configuration taken as seconds
Leeway_Seconds(minutes) == minutes

\* timedelta(minutes = float(sun_leeway)), in seconds
Leeway(minutes) == minutes * 60

ComputeBoundaries(sunsetRaw, sunriseRaw, leeway, tt, t) ==
    LET ss0  == sunsetRaw + Leeway(leeway)
        sr0  == sunriseRaw - Leeway(leeway)
        sat0 == ss0 + TwilightMinutes * 60
        sbt0 == sr0 - TwilightMinutes * 60
        ss1  == IF tt # 0 THEN t + GraceSeconds ELSE ss0
        sr1  == IF tt # 0 THEN ss1 + tt ELSE sr0
        sat1 == IF tt # 0 THEN ss1 ELSE sat0
        sbt1 == IF tt # 0 THEN sr1 ELSE sbt0
        late == MissedSunset(ss1, sr1, sbt1)
    IN  [sunset                  |-> IF late THEN t + GraceSeconds ELSE ss1,
         sunset_after_twilight   |-> sat1,
         sunrise_before_twilight |-> sbt1,
         sunrise                 |-> sr1,
         computedSunset          |-> ss1,
         late_start_logged       |-> late,
         rawSunset               |-> sunsetRaw,
         rawSunrise              |-> sunriseRaw]

NoCompute ==
    [n |-> 0, at |-> 0, computedSunset |-> 0, sunset |-> 0,
     sunset_after_twilight |-> 0, sunrise_before_twilight |-> 0,
     sunrise |-> 0, late_start_logged |-> FALSE,
     rawSunset |-> 0, rawSunrise |-> 0]

\* the record kept of a computation made at time t, the n-th of the run
Computed(b, t, n) ==
    [n |-> n, at |-> t, computedSunset |-> b.computedSunset,
     sunset |-> b.sunset,
     sunset_after_twilight |-> b.sunset_after_twilight,
     sunrise_before_twilight |-> b.sunrise_before_twilight,
     sunrise |-> b.sunrise, late_start_logged |-> b.late_start_logged,
     rawSunset |-> b.rawSunset, rawSunrise |-> b.rawSunrise]

----------------------------------------------------------------------------
(* Initial state: the process has been started, nothing has run yet.       *)

NoHandle ==
    [called |-> FALSE, img |-> "missing", full |-> FALSE, fault |-> FALSE,
     renamed |-> FALSE, thumbed |-> FALSE, pointer |-> FALSE]

Init ==
    /\ pc = "initialise"
    /\ phase = "AwaitingStart"
    /\ now = 0
    /\ test_time \in TestTimes
    /\ cfg \in Configs
    /\ gps_lock = "N"
    /\ sunset = 0
    /\ sunset_after_twilight = 0
    /\ sunrise_before_twilight = 0
    /\ sunrise = 0
    /\ lastCompute = NoCompute
    /\ recomputes = 0
    /\ hw = [shutter |-> "unknown", camera |-> "unknown",
             video |-> "unknown", fan |-> "unknown"]
    /\ ser = "none"
    /\ cmds = <<>>
    /\ afterFull = <<>>
    /\ polls = 0
    /\ tether = "unbound"
    /\ tetherSignals = <<>>
    /\ launches = <<>>
    /\ cloud_status_internal = InitialInternalStatus
    /\ nightLog = <<>>
    /\ lastHandle = NoHandle
    /\ imgfile = "missing"
    /\ diskFullSeen = FALSE
    /\ result = "running"

----------------------------------------------------------------------------
(* main_function up to the end of the waiting loop.                        *)

\* lines 159-164: connect to the microcontroller, everything off
Initialise ==
    /\ pc = "initialise"
    /\ ser' = "open"
    /\ hw' = [hw EXCEPT !.shutter = "off", !.camera = "off", !.video = "off"]
    /\ Calls(<<"connect", "shutter_off", "wait_for_camera_ready",
               "camera_off", "video_off">>)
    /\ pc' = "compute"
    /\ UNCHANGED <<phase, now, test_time, cfg, gps_lock, sunset,
                   sunset_after_twilight, sunrise_before_twilight, sunrise,
                   lastCompute, recomputes, tether, tetherSignals,
                   launches, cloud_status_internal, nightLog, lastHandle,
                   imgfile, diskFullSeen, result, polls>>

\* lines 186-241: first GPS query and first boundary computation
FirstCompute ==
    /\ pc = "compute"
    /\ \E lock \in {"N", "Y"}, ss \in SunsetTimes, sr \in SunriseTimes :
         LET b == ComputeBoundaries(ss, sr, cfg.sun_leeway, test_time, now)
         IN  /\ gps_lock' = lock
             /\ sunset' = b.sunset
             /\ sunset_after_twilight' = b.sunset_after_twilight
             /\ sunrise_before_twilight' = b.sunrise_before_twilight
             /\ sunrise' = b.sunrise
             /\ lastCompute' = Computed(b, now, 1)
    /\ Calls(<<"update_GPS_location">>)
    /\ pc' = "wait"
    /\ UNCHANGED <<phase, now, test_time, cfg, recomputes, hw, ser, tether,
                   tetherSignals, launches, cloud_status_internal,
                   nightLog, lastHandle, imgfile, diskFullSeen, result,
                   polls>>

\* variant of RecheckGPS: the GPS is queried in every pass of a normal run
RecheckGPS_Always == test_time = 0

\* line 250: the GPS is queried again when there is no lock, not in a test
RecheckGPS == gps_lock = "N" /\ test_time = 0

\* variant of WaitingForSunset: the loop is left one poll early
WaitingForSunset_OnePollEarly == now + PollSleep < sunset

\* line 244: the condition of the waiting loop
WaitingForSunset == now < sunset

\* lines 244-310, one pass of the waiting loop in which no new fix arrives:
\* sleep 30 s, and query the GPS again when there is no lock
WaitPoll ==
    /\ pc = "wait"
    /\ WaitingForSunset
    /\ now' = now + PollSleep
    /\ polls' = polls + 1
    /\ Calls(IF RecheckGPS THEN <<"update_GPS_location">> ELSE <<>>)
    /\ UNCHANGED <<pc, phase, test_time, cfg, gps_lock, sunset,
                   sunset_after_twilight, sunrise_before_twilight, sunrise,
                   lastCompute, recomputes, hw, ser, tether, tetherSignals,
                   launches, cloud_status_internal, nightLog, lastHandle,
                   imgfile, diskFullSeen, result>>

\* lines 244-310, one pass of the waiting loop in which the GPS query
\* returns a lock: the boundaries are computed again
WaitPollNewFix ==
    /\ pc = "wait"
    /\ WaitingForSunset
    /\ RecheckGPS
    /\ polls < MaxFixPolls
    /\ now' = now + PollSleep
    /\ gps_lock' = "Y"
    /\ \E ss \in SunsetTimes, sr \in SunriseTimes :
         LET b == ComputeBoundaries(ss, sr, cfg.sun_leeway, test_time, now')
         IN  /\ sunset' = b.sunset
             /\ sunset_after_twilight' = b.sunset_after_twilight
             /\ sunrise_before_twilight' = b.sunrise_before_twilight
             /\ sunrise' = b.sunrise
             /\ lastCompute' = Computed(b, now', lastCompute.n + 1)
    /\ recomputes' = recomputes + 1
    /\ polls' = polls + 1
    /\ Calls(<<"update_GPS_location">>)
    /\ UNCHANGED <<pc, phase, test_time, cfg, hw, ser, tether, tetherSignals,
                   launches, cloud_status_internal, nightLog, lastHandle,
                   imgfile, diskFullSeen, result>>

\* lines 311-403: the waiting loop is left; status reads, video, camera on,
\* camera settings, condensation fan on
SwitchOn ==
    /\ pc = "wait"
    /\ ~WaitingForSunset
    /\ now' = now + SwitchOnSleep
    /\ hw' = [hw EXCEPT !.camera = "on", !.fan = "on",
                        !.video = IF cfg.video_device THEN "on" ELSE @]
    /\ Calls((IF cfg.video_device THEN <<"video_on">> ELSE <<>>)
             \o <<"camera_on", "camera_download_images", "rename_RAW_all",
                  "camera_set_time", "cond_on">>)
    /\ pc' = "evening"
    /\ UNCHANGED <<phase, test_time, cfg, gps_lock, sunset,
                   sunset_after_twilight, sunrise_before_twilight, sunrise,
                   lastCompute, recomputes, ser, tether, tetherSignals,
                   launches, cloud_status_internal, nightLog, lastHandle,
                   imgfile, diskFullSeen, result, polls>>

----------------------------------------------------------------------------
(* The procedures main_function calls.                                     *)

\* variant of HighAcqCmds: the rename pass runs while the shutter is on
HighAcqCmds_RenameWhileOn ==
    <<"shutter_on", "rename_RAW_all", "shutter_off", "make_all_thumb",
      "get_latest_imagefile">>

\* variant of HighAcqCmds: the thumbnails are made before the rename pass
HighAcqCmds_ThumbFirst ==
    <<"shutter_on", "shutter_off", "make_all_thumb", "rename_RAW_all",
      "get_latest_imagefile">>

\* dfn.get_latest_imagefile: the path of the newest image of the directory,
\* of one of the kinds handle_new_image tells apart, or, when the directory
\* holds no image, a not-found value: a string that is the path of no file
GetLatestImagefile == ImgKinds

\* high_acq, lines 646-671: the driver and post-processor calls it makes
HighAcqCmds ==
    <<"shutter_on", "shutter_off", "rename_RAW_all", "make_all_thumb",
      "get_latest_imagefile">>

\* variant of LowAcqSleep: the two configured durations are swapped
LowAcqSleep_Swapped(status) ==
    IF status = CLOUDY THEN cfg.time_checking_clearing
    ELSE IF status = CLEARING THEN cfg.time_checking_cloudy
    ELSE 30

\* low_acq, lines 674-695: the sleep it makes for a cloud status
LowAcqSleep(status) ==
    IF status = CLOUDY THEN cfg.time_checking_cloudy
    ELSE IF status = CLEARING THEN cfg.time_checking_clearing
    ELSE 30

\* low_acq, lines 674-695: the driver and post-processor calls it makes
LowAcqCmds ==
    <<"single_image", "rename_RAW_all", "make_all_thumb",
      "get_latest_imagefile">>

\* lines 389-396: interval_time
IntervalTime == IF test_time # 0 THEN TestInterval ELSE cfg.time_checking_clear

\* variant of ModuleSer: the module's ser is the channel main_function opened
ModuleSer_Bound == "open"

\* the name ser of the module (line 101): main_function assigns its own
\* local ser (line 160) and nothing ever binds the module's
ModuleSer == "unbound"

\* clean_up_no_dl, lines 757-770: the calls made before ser.close()
CleanUpCmds ==
    <<"shutter_off", "cond_off", "wait_for_camera_ready", "video_off",
      "camera_off", "join_jobs">>

\* clean_up_no_dl, lines 766-770: ser.close() and the return
CleanUpEnd ==
    IF ModuleSer = "unbound"
    THEN [cmds |-> <<>>, result |-> "NameError", closes |-> FALSE]
    ELSE [cmds |-> <<"ser_close">>, result |-> "returned_False",
          closes |-> TRUE]

\* variant of HandleNewImage: the image is renamed before the disk is checked
HandleNewImage_CheckLate(img, full) ==
    IF img = "missing"
    THEN [called |-> TRUE, img |-> img, full |-> full, fault |-> FALSE,
          renamed |-> FALSE, thumbed |-> FALSE, pointer |-> FALSE]
    ELSE IF img = "cloudy_img"
    THEN [called |-> TRUE, img |-> img, full |-> full, fault |-> full,
          renamed |-> FALSE, thumbed |-> FALSE, pointer |-> ~full]
    ELSE [called |-> TRUE, img |-> img, full |-> full, fault |-> full,
          renamed |-> TRUE, thumbed |-> (~full /\ img # "thumb.jpg"),
          pointer |-> (~full /\ img # "raw")]

\* handle_new_image, lines 699-738: what it does with an image of kind img
\* when dfn.detect_disk_full() answers full
HandleNewImage(img, full) ==
    IF img = "missing"
    THEN [called |-> TRUE, img |-> img, full |-> full, fault |-> FALSE,
          renamed |-> FALSE, thumbed |-> FALSE, pointer |-> FALSE]
    ELSE IF full
    THEN [called |-> TRUE, img |-> img, full |-> full, fault |-> TRUE,
          renamed |-> FALSE, thumbed |-> FALSE, pointer |-> FALSE]
    ELSE IF img = "cloudy_img"
    THEN [called |-> TRUE, img |-> img, full |-> full, fault |-> FALSE,
          renamed |-> FALSE, thumbed |-> FALSE, pointer |-> TRUE]
    ELSE IF img \in {"jpg", "thumb.jpg"}
    THEN [called |-> TRUE, img |-> img, full |-> full, fault |-> FALSE,
          renamed |-> TRUE,
          thumbed |-> (img = "jpg" /\ cfg.clearing_quality = "2"),
          pointer |-> TRUE]
    ELSE [called |-> TRUE, img |-> img, full |-> full, fault |-> FALSE,
          renamed |-> TRUE, thumbed |-> TRUE, pointer |-> FALSE]

\* the post-processor calls of a handle_new_image call
HandleCmds(h) ==
    (IF h.renamed THEN <<"rename_RAW">> ELSE <<>>)
    \o (IF h.thumbed THEN <<"make_thumb">> ELSE <<>>)
    \o (IF h.pointer THEN <<"write_last_image_file">> ELSE <<>>)

\* what subprocess.Popen can do: start gphoto2, or raise OSError when the
\* program cannot be executed.  It never raises CalledProcessError.
LaunchOutcomes == {"started", "OSError"}

\* the except clauses of lines 434, 468 and 553
CaughtByHandler(outcome) == outcome = "CalledProcessError"

\* lines 409-419 and 529-538: camera settings of a twilight block
TwilightSettingsCmds ==
    <<"camera_set_quality_JPG", "camera_set_shutter", "camera_set_iso">>

\* lines 451-454: camera settings of the night block
NightSettingsCmds ==
    <<"camera_set_quality_RAW", "camera_set_shutter", "camera_set_iso">>

----------------------------------------------------------------------------
(* A twilight block (evening: lines 405-446, morning: lines 526-564).      *)

TwilightSettings(at, next, ph) ==
    /\ pc = at
    /\ test_time = 0
    /\ phase' = ph
    /\ Calls(TwilightSettingsCmds)
    /\ pc' = next
    /\ UNCHANGED <<now, test_time, cfg, gps_lock, sunset,
                   sunset_after_twilight, sunrise_before_twilight, sunrise,
                   lastCompute, recomputes, hw, ser, tether, tetherSignals,
                   launches, cloud_status_internal, nightLog, lastHandle,
                   imgfile, diskFullSeen, result, polls>>

TwilightSkipped(at, next) ==
    /\ pc = at
    /\ test_time # 0
    /\ pc' = next
    /\ Calls(<<>>)
    /\ UNCHANGED <<phase, now, test_time, cfg, gps_lock, sunset,
                   sunset_after_twilight, sunrise_before_twilight, sunrise,
                   lastCompute, recomputes, hw, ser, tether, tetherSignals,
                   launches, cloud_status_internal, nightLog, lastHandle,
                   imgfile, diskFullSeen, result, polls>>

\* the record kept of an attempt to start a tether: the seconds computed
\* for it, what Popen did, and whether gphoto2 --reset was called
Launch(which, boundary, outcome) ==
    [which |-> which, secs |-> boundary - now, at |-> now,
     boundary |-> boundary, outcome |-> outcome,
     reset |-> (outcome # "started" /\ CaughtByHandler(outcome))]

TwilightTether(at, next, which, boundary) ==
    /\ pc = at
    /\ \E outcome \in LaunchOutcomes :
         /\ launches' = Append(launches, Launch(which, boundary, outcome))
         /\ IF outcome = "started"
            THEN /\ Calls(<<"Popen_twilight_tether">>)
                 /\ pc' = next
                 /\ result' = result
            ELSE IF CaughtByHandler(outcome)
            THEN /\ Calls(<<"gphoto_reset">>)
                 /\ pc' = next
                 /\ result' = result
            ELSE /\ Calls(<<>>)
                 /\ pc' = "crashed"
                 /\ result' = outcome
    /\ UNCHANGED <<phase, now, test_time, cfg, gps_lock, sunset,
                   sunset_after_twilight, sunrise_before_twilight, sunrise,
                   lastCompute, recomputes, hw, ser, tether, tetherSignals,
                   cloud_status_internal, nightLog, lastHandle, imgfile,
                   diskFullSeen, polls>>

TwilightAcq(at, next, boundary) ==
    /\ pc = at
    /\ now < boundary
    /\ now' = now + IntervalTime
    /\ hw' = [hw EXCEPT !.shutter = "off"]
    /\ Calls(HighAcqCmds)
    /\ imgfile' \in GetLatestImagefile
    /\ lastHandle' = NoHandle
    /\ pc' = next
    /\ UNCHANGED <<phase, test_time, cfg, gps_lock, sunset,
                   sunset_after_twilight, sunrise_before_twilight, sunrise,
                   lastCompute, recomputes, ser, tether, tetherSignals,
                   launches, cloud_status_internal, nightLog,
                   diskFullSeen, result, polls>>

TwilightHandle(at, next) ==
    /\ pc = at
    /\ \E full \in BOOLEAN :
         LET h == HandleNewImage(imgfile, full)
         IN  /\ lastHandle' = h
             /\ IF h.fault
                THEN /\ diskFullSeen' = TRUE
                     /\ now' = now + DrainSleep
                     /\ hw' = [shutter |-> "off", camera |-> "off",
                               video |-> "off", fan |-> "off"]
                     /\ cmds' = CleanUpCmds \o CleanUpEnd.cmds
                     /\ afterFull' = afterFull \o cmds'
                     /\ ser' = IF CleanUpEnd.closes THEN "closed" ELSE ser
                     /\ IF CleanUpEnd.result = "returned_False"
                        THEN pc' = next /\ result' = result
                        ELSE pc' = "crashed" /\ result' = CleanUpEnd.result
                ELSE /\ Calls(HandleCmds(h))
                     /\ pc' = next
                     /\ UNCHANGED <<diskFullSeen, now, hw, ser, result,
                                    polls>>
    /\ UNCHANGED <<phase, test_time, cfg, gps_lock, sunset,
                   sunset_after_twilight, sunrise_before_twilight, sunrise,
                   lastCompute, recomputes, tether, tetherSignals,
                   launches, cloud_status_internal, nightLog, imgfile,
                   polls>>

TwilightExit(at, next, boundary) ==
    /\ pc = at
    /\ ~(now < boundary)
    /\ pc' = next
    /\ Calls(<<>>)
    /\ UNCHANGED <<phase, now, test_time, cfg, gps_lock, sunset,
                   sunset_after_twilight, sunrise_before_twilight, sunrise,
                   lastCompute, recomputes, hw, ser, tether, tetherSignals,
                   launches, cloud_status_internal, nightLog, lastHandle,
                   imgfile, diskFullSeen, result, polls>>

EveningSettings == TwilightSettings("evening", "evening_tether", "EveningTwilight")

\* variant of EveningSkipped: a test run jumps over the night block as well
EveningSkipped_ToMorning == TwilightSkipped("evening", "morning")

EveningSkipped == TwilightSkipped("evening", "night")

EveningTether ==
    TwilightTether("evening_tether", "evening_loop", "evening",
                   sunset_after_twilight)

\* variant of EveningAcq: the evening loop runs up to the morning twilight
EveningAcq_UntilMorning ==
    TwilightAcq("evening_loop", "evening_handle", sunrise_before_twilight)

EveningAcq == TwilightAcq("evening_loop", "evening_handle", sunset_after_twilight)

EveningHandle == TwilightHandle("evening_handle", "evening_loop")

EveningExit == TwilightExit("evening_loop", "night", sunset_after_twilight)

MorningSettings == TwilightSettings("morning", "morning_tether", "MorningTwilight")

\* variant of MorningSkipped: a test run starts the morning tether
MorningSkipped_ToTether == TwilightSkipped("morning", "morning_tether")

MorningSkipped == TwilightSkipped("morning", "sunrise")

MorningTether == TwilightTether("morning_tether", "morning_loop", "morning", sunrise)

MorningAcq == TwilightAcq("morning_loop", "morning_handle", sunrise)

MorningHandle == TwilightHandle("morning_handle", "morning_loop")

MorningExit == TwilightExit("morning_loop", "sunrise", sunrise)

----------------------------------------------------------------------------
(* The night block, lines 448-524.                                         *)

NightSettings ==
    /\ pc = "night"
    /\ phase' = "Night"
    /\ Calls(NightSettingsCmds)
    /\ pc' = "night_tether"
    /\ UNCHANGED <<now, test_time, cfg, gps_lock, sunset,
                   sunset_after_twilight, sunrise_before_twilight, sunrise,
                   lastCompute, recomputes, hw, ser, tether, tetherSignals,
                   launches, cloud_status_internal, nightLog, lastHandle,
                   imgfile, diskFullSeen, result, polls>>

\* lines 460-473: the night tether is started and its handle kept
NightTether ==
    /\ pc = "night_tether"
    /\ \E outcome \in LaunchOutcomes :
         /\ launches' = Append(launches,
                Launch("night", sunrise_before_twilight, outcome))
         /\ IF outcome = "started"
            THEN /\ tether' = "alive"
                 /\ Calls(<<"Popen_night_tether">>)
                 /\ pc' = "night_loop"
                 /\ result' = result
            ELSE IF CaughtByHandler(outcome)
            THEN /\ tether' = tether
                 /\ Calls(<<"gphoto_reset">>)
                 /\ pc' = "night_loop"
                 /\ result' = result
            ELSE /\ tether' = tether
                 /\ Calls(<<>>)
                 /\ pc' = "crashed"
                 /\ result' = outcome
    /\ UNCHANGED <<phase, now, test_time, cfg, gps_lock, sunset,
                   sunset_after_twilight, sunrise_before_twilight, sunrise,
                   lastCompute, recomputes, hw, ser, tetherSignals,
                   cloud_status_internal, nightLog, lastHandle,
                   imgfile, diskFullSeen, polls>>

\* lines 482-485: the status of a test run is forced to CLEAR
EffectiveStatus(read) == IF test_time # 0 THEN CLEAR ELSE read

\* variant of AcqFor: the first Clear reading after Cloudy still idles
AcqFor_StickyCloudy(status) ==
    IF status = CLEAR
    THEN (IF cloud_status_internal = CLOUDY THEN "low" ELSE "high")
    ELSE IF status = CLEARING THEN "low"
    ELSE IF status = CLOUDY THEN "low"
    ELSE "high"

\* variant of AcqFor: a status that is none of the three idles like Cloudy
AcqFor_UnknownLow(status) ==
    IF status = CLEAR THEN "high" ELSE "low"

\* lines 487-505: the acquisition procedure run for a cloud status
AcqFor(status) ==
    IF status = CLEAR THEN "high"
    ELSE IF status = CLEARING THEN "low"
    ELSE IF status = CLOUDY THEN "low"
    ELSE "high"

\* lines 487-505: the log lines written for a cloud status, given the status
\* of the previous iteration
StatusLogs(status, internal) ==
    IF status = CLEAR
    THEN (IF internal # CLEAR THEN {"Gone_clear"} ELSE {})
    ELSE IF status = CLEARING
    THEN (IF internal # CLEARING THEN {"Gone_clearing"} ELSE {})
    ELSE IF status = CLOUDY
    THEN {"Gone_cloudy"}
    ELSE IF internal \in {CLEAR, CLEARING, CLOUDY}
    THEN {"Gone_undefined_cloud_status"}
    ELSE {"Still_undefined_cloud_status"}

\* the last MaxNightLog records of the night log with r added
Logged(log, r) ==
    LET l == Append(log, r)
    IN  IF Len(l) > MaxNightLog THEN SubSeq(l, Len(l) - MaxNightLog + 1, Len(l))
        ELSE l

\* lines 475-506: one iteration of the night loop
NightIter ==
    /\ pc = "night_loop"
    /\ now < sunrise_before_twilight
    /\ \E read \in CloudValues :
         LET status == EffectiveStatus(read)
             acq    == AcqFor(status)
             slept  == IF acq = "high" THEN IntervalTime
                       ELSE LowAcqSleep(status)
         IN  /\ now' = now + slept
             /\ Calls(IF acq = "high" THEN HighAcqCmds ELSE LowAcqCmds)
             /\ nightLog' = Logged(nightLog,
                    [read |-> read, status |-> status,
                     previous |-> cloud_status_internal, acq |-> acq,
                     slept |-> slept,
                     logs |-> StatusLogs(status, cloud_status_internal)])
             /\ cloud_status_internal' = status
    /\ hw' = [hw EXCEPT !.shutter = "off"]
    /\ imgfile' \in GetLatestImagefile
    /\ lastHandle' = NoHandle
    /\ UNCHANGED <<pc, phase, test_time, cfg, gps_lock, sunset,
                   sunset_after_twilight, sunrise_before_twilight, sunrise,
                   lastCompute, recomputes, ser, tether, tetherSignals,
                   launches, diskFullSeen, result, polls>>

\* lines 475 and 508: the night loop is left, sleep 5 s; the log of the
\* loop is dropped with it
NightExit ==
    /\ pc = "night_loop"
    /\ ~(now < sunrise_before_twilight)
    /\ now' = now + NightExitSleep
    /\ pc' = "tether_poll"
    /\ Calls(<<>>)
    /\ nightLog' = <<>>
    /\ UNCHANGED <<phase, test_time, cfg, gps_lock, sunset,
                   sunset_after_twilight, sunrise_before_twilight, sunrise,
                   lastCompute, recomputes, hw, ser, tether, tetherSignals,
                   launches, cloud_status_internal, lastHandle,
                   imgfile, diskFullSeen, result, polls>>

\* Popen.poll: a subprocess that has exited is reaped
Polled(t) == IF t = "exited" THEN "reaped" ELSE t

\* Popen.send_signal is os.kill(pid, sig): it reaches a running process or
\* a zombie.  Once the subprocess has been reaped its pid is gone: os.kill
\* raises OSError, or the signal goes to whatever process has the pid now.
SignalOutcomes(t) ==
    IF t = "reaped" THEN {"OSError", "sent"} ELSE {"sent"}

\* lines 510-514 (at = "tether_poll") and 520-524 (at = "tether_poll2")
TetherPoll(at, next) ==
    /\ pc = at
    /\ tether' = Polled(tether)
    /\ Calls(<<"tether_poll">>)
    /\ pc' = next
    /\ UNCHANGED <<phase, now, test_time, cfg, gps_lock, sunset,
                   sunset_after_twilight, sunrise_before_twilight, sunrise,
                   lastCompute, recomputes, hw, ser, tetherSignals,
                   launches, cloud_status_internal, nightLog, lastHandle,
                   imgfile, diskFullSeen, result, polls>>

\* line 516 (sig = "SIGTERM") and line 517 (sig = "SIGKILL")
TetherSignal(at, next, sig) ==
    /\ pc = at
    /\ \E outcome \in SignalOutcomes(tether) :
         IF outcome = "sent"
         THEN /\ tetherSignals' = Append(tetherSignals, sig)
              /\ pc' = next
              /\ result' = result
         ELSE /\ tetherSignals' = tetherSignals
              /\ pc' = "crashed"
              /\ result' = outcome
    /\ Calls(<<>>)
    /\ UNCHANGED <<phase, now, test_time, cfg, gps_lock, sunset,
                   sunset_after_twilight, sunrise_before_twilight, sunrise,
                   lastCompute, recomputes, hw, ser, tether, launches,
                   cloud_status_internal, nightLog, lastHandle, imgfile,
                   diskFullSeen, polls>>

TetherPoll1 == TetherPoll("tether_poll", "tether_terminate")

TetherTerminate == TetherSignal("tether_terminate", "tether_kill", "SIGTERM")

\* variant of TetherKill: the second signal is a SIGTERM as well
TetherKill_TermAgain == TetherSignal("tether_kill", "tether_poll2", "SIGTERM")

TetherKill == TetherSignal("tether_kill", "tether_poll2", "SIGKILL")

TetherPoll2 == TetherPoll("tether_poll2", "morning")

\* the gphoto2 tether of the night exits on its own or by a signal
TetherExits ==
    /\ tether = "alive"
    /\ pc \notin {"done", "crashed"}
    /\ tether' = "exited"
    /\ UNCHANGED <<pc, phase, now, test_time, cfg, gps_lock, sunset,
                   sunset_after_twilight, sunrise_before_twilight, sunrise,
                   lastCompute, recomputes, hw, ser, tetherSignals,
                   launches, cloud_status_internal, nightLog, lastHandle,
                   imgfile, diskFullSeen, result, polls, cmds, afterFull>>

----------------------------------------------------------------------------
(* Sunrise, lines 566-643.                                                 *)

\* variant of ShutdownCmds: the channel is closed before the jobs are joined
ShutdownCmds_CloseFirst ==
    <<"shutter_off">>
    \o (IF cfg.video_device THEN <<"video_off">> ELSE <<>>)
    \o <<"wait_for_camera_ready", "ser_close", "join_jobs",
         "camera_download_images", "camera_off", "cond_off">>

\* lines 570-592: the calls of the sunrise shutdown
ShutdownCmds ==
    <<"shutter_off">>
    \o (IF cfg.video_device THEN <<"video_off">> ELSE <<>>)
    \o <<"wait_for_camera_ready", "join_jobs",
         "camera_download_images", "camera_off", "cond_off",
         "ser_close">>

\* lines 566-592: the hardware is shut down and the channel closed
Shutdown ==
    /\ pc = "sunrise"
    /\ phase' = "Shutdown"
    /\ now' = now + DrainSleep
    /\ hw' = [shutter |-> "off", camera |-> "off", fan |-> "off",
              video |-> IF cfg.video_device THEN "off" ELSE hw.video]
    /\ Calls(ShutdownCmds)
    /\ ser' = "closed"
    /\ pc' = "final"
    /\ UNCHANGED <<test_time, cfg, gps_lock, sunset, sunset_after_twilight,
                   sunrise_before_twilight, sunrise, lastCompute, recomputes,
                   tether, tetherSignals, launches,
                   cloud_status_internal, nightLog, lastHandle, imgfile,
                   diskFullSeen, result, polls>>

\* lines 594-643: last rename pass, thumbnails, diagnostics, then the
\* process is replaced by the processing wrapper or returns True
Finish ==
    /\ pc = "final"
    /\ now' = now + ExitSleep
    /\ Calls(<<"rename_RAW_all">>
             \o (IF cfg.clearing_quality = "2"
                 THEN <<"make_all_thumb">> ELSE <<>>))
    /\ result' = IF test_time = 0 /\ cfg.event_detect \notin {"0", "N"}
                 THEN "execvp" ELSE "returned_True"
    /\ pc' = "done"
    /\ UNCHANGED <<phase, test_time, cfg, gps_lock, sunset,
                   sunset_after_twilight, sunrise_before_twilight, sunrise,
                   lastCompute, recomputes, hw, ser, tether, tetherSignals,
                   launches, cloud_status_internal, nightLog, lastHandle,
                   imgfile, diskFullSeen, polls>>

----------------------------------------------------------------------------
(* The acquisition procedures on their own: high_acq and low_acq called    *)
(* with every duration of AcqIntervals, the camera switched on.            *)

AcqConfigs ==
    {[sun_leeway |-> 0,
      time_checking_clear |-> c,
      time_checking_clearing |-> g,
      time_checking_cloudy |-> y,
      video_device |-> TRUE,
      clearing_quality |-> "2",
      event_detect |-> "1"] :
        c \in AcqIntervals, g \in AcqIntervals \ {1}, y \in AcqIntervals \ {180}}

AcqInit ==
    /\ pc = "acq"
    /\ phase = "Night"
    /\ now = 0
    /\ test_time = 0
    /\ cfg \in AcqConfigs
    /\ gps_lock = "N"
    /\ sunset = 0
    /\ sunset_after_twilight = 0
    /\ sunrise_before_twilight = 0
    /\ sunrise = 0
    /\ lastCompute = NoCompute
    /\ recomputes = 0
    /\ hw = [shutter |-> "off", camera |-> "on", video |-> "on", fan |-> "on"]
    /\ ser = "open"
    /\ cmds = <<>>
    /\ afterFull = <<>>
    /\ polls = 0
    /\ tether = "alive"
    /\ tetherSignals = <<>>
    /\ launches = <<>>
    /\ cloud_status_internal = InitialInternalStatus
    /\ nightLog = <<>>
    /\ lastHandle = NoHandle
    /\ imgfile = "missing"
    /\ diskFullSeen = FALSE
    /\ result = "running"

\* one call of high_acq(current_dir, interval_time, config_dict)
HighAcqCall ==
    /\ pc = "acq"
    /\ Len(nightLog) < MaxAcqCalls
    /\ now' = now + IntervalTime
    /\ hw' = [hw EXCEPT !.shutter = "off"]
    /\ Calls(HighAcqCmds)
    /\ imgfile' \in GetLatestImagefile
    /\ nightLog' = Append(nightLog,
           [read |-> CLEAR, status |-> CLEAR,
            previous |-> cloud_status_internal, acq |-> "high",
            slept |-> IntervalTime, logs |-> {}])
    /\ UNCHANGED <<pc, phase, test_time, cfg, gps_lock, sunset,
                   sunset_after_twilight, sunrise_before_twilight, sunrise,
                   lastCompute, recomputes, ser, tether, tetherSignals,
                   launches, cloud_status_internal, lastHandle,
                   diskFullSeen, result, polls>>

\* one call of low_acq(current_dir, cloud_status, config_dict), with one of
\* the two statuses main_function calls it with
LowAcqCall ==
    /\ pc = "acq"
    /\ Len(nightLog) < MaxAcqCalls
    /\ \E status \in {CLOUDY, CLEARING} :
         /\ now' = now + LowAcqSleep(status)
         /\ nightLog' = Append(nightLog,
                [read |-> status, status |-> status,
                 previous |-> cloud_status_internal, acq |-> "low",
                 slept |-> LowAcqSleep(status), logs |-> {}])
    /\ Calls(LowAcqCmds)
    /\ imgfile' \in GetLatestImagefile
    /\ UNCHANGED <<pc, phase, test_time, cfg, gps_lock, sunset,
                   sunset_after_twilight, sunrise_before_twilight, sunrise,
                   lastCompute, recomputes, hw, ser, tether, tetherSignals,
                   launches, cloud_status_internal, lastHandle,
                   diskFullSeen, result, polls>>

AcqNext ==
    \/ HighAcqCall
    \/ LowAcqCall

SpecAcq == AcqInit /\ [][AcqNext]_vars

----------------------------------------------------------------------------

Next ==
    \/ Initialise
    \/ FirstCompute
    \/ WaitPoll
    \/ WaitPollNewFix
    \/ SwitchOn
    \/ EveningSettings
    \/ EveningSkipped
    \/ EveningTether
    \/ EveningAcq
    \/ EveningHandle
    \/ EveningExit
    \/ NightSettings
    \/ NightTether
    \/ NightIter
    \/ NightExit
    \/ TetherPoll1
    \/ TetherTerminate
    \/ TetherKill
    \/ TetherPoll2
    \/ TetherExits
    \/ MorningSettings
    \/ MorningSkipped
    \/ MorningTether
    \/ MorningAcq
    \/ MorningHandle
    \/ MorningExit
    \/ Shutdown
    \/ Finish

Spec == Init /\ [][Next]_vars

\* the program has stopped: it returned, was replaced, or died of an
\* exception nothing caught
Terminated == pc \in {"done", "crashed"}

\* the process is scheduled: wall-clock time advances, every sleep ends and
\* every external call returns, so a step that can be taken is taken
SpecLive == Spec /\ WF_vars(Next)

----------------------------------------------------------------------------
(* Properties.                                                             *)

Range(s) == {s[i] : i \in 1..Len(s)}

\* C1: in every state in which the program has stopped, whichever way it
\* stopped, the shutter trigger is off and the camera is powered off.
C1_HardwareSafeWhenStopped ==
    Terminated => hw.shutter = "off" /\ hw.camera = "off"

\* C2: once handle_new_image has detected a full disk, no acquisition is
\* made any more, and when the program has stopped, shutter off, fan off,
\* camera off and the close of the channel have each been issued exactly
\* once since the detection and the session has returned the failure
\* indicator.
C2_DiskFullEndsSession ==
    diskFullSeen =>
        /\ "shutter_on" \notin Range(afterFull)
        /\ "single_image" \notin Range(afterFull)
        /\ Terminated =>
             /\ Count(afterFull, "shutter_off") = 1
             /\ Count(afterFull, "cond_off") = 1
             /\ Count(afterFull, "camera_off") = 1
             /\ Count(afterFull, "ser_close") = 1
             /\ result = "returned_False"

\* C3 as claimed: for every image handed to handle_new_image, whether its
\* file exists or not, a full disk leads to the fault shutdown and to no
\* rename, thumbnail or pointer write.
C3_FullDiskAlwaysFaults ==
    (lastHandle.called /\ lastHandle.full) =>
        /\ lastHandle.fault
        /\ ~lastHandle.renamed /\ ~lastHandle.thumbed /\ ~lastHandle.pointer

\* C3 as amended: for every image whose file exists, a full disk leads to
\* the fault shutdown, and no rename, thumbnail or pointer write is made
\* for the image; for a missing file the disk is not checked, no fault
\* shutdown is made and nothing is processed.
C3_FullDiskFaultsForExistingFile ==
    (lastHandle.called /\ lastHandle.full) =>
        /\ lastHandle.fault <=> (lastHandle.img # "missing")
        /\ ~lastHandle.renamed /\ ~lastHandle.thumbed /\ ~lastHandle.pointer
        /\ Range(cmds) \cap
             {"rename_RAW", "make_thumb", "write_last_image_file"} = {}
        /\ lastHandle.fault =>
             diskFullSeen /\ Len(cmds) > 0 /\ cmds[1] = "shutter_off"
        /\ ~lastHandle.fault => ~diskFullSeen

C3_Witness ==
    lastHandle.called /\ lastHandle.full /\ lastHandle.fault
    /\ lastHandle.img = "raw"

PhaseRank(p) ==
    CASE p = "AwaitingStart"   -> 0
      [] p = "EveningTwilight" -> 1
      [] p = "Night"           -> 2
      [] p = "MorningTwilight" -> 3
      [] p = "Shutdown"        -> 4

\* C4 as claimed: the phase never moves backwards, and the phase entered
\* on leaving AwaitingStart is EveningTwilight, in a normal run and in a
\* test run.
C4_ForwardThroughEvening ==
    [][/\ PhaseRank(phase') >= PhaseRank(phase)
       /\ (phase = "AwaitingStart" /\ phase' # "AwaitingStart")
             => phase' = "EveningTwilight"]_vars

\* C4 as amended: the phase never moves backwards and no phase is entered
\* twice; a normal run enters the phases one after the other, AwaitingStart,
\* EveningTwilight, Night, MorningTwilight, Shutdown; a test run skips both
\* twilight blocks and goes AwaitingStart, Night, Shutdown.
C4_ForwardOnly ==
    [][phase' # phase =>
         IF test_time = 0
         THEN PhaseRank(phase') = PhaseRank(phase) + 1
         ELSE \/ phase = "AwaitingStart" /\ phase' = "Night"
              \/ phase = "Night" /\ phase' = "Shutdown"]_vars

C4_Witness == test_time # 0 /\ phase = "Shutdown" /\ pc = "done"

\* C5: once the boundaries have been computed, sunset < sunset_after_twilight
\* <= sunrise_before_twilight < sunrise, also after the missed-sunset
\* override and after a recomputation.
C5_BoundariesOrdered ==
    lastCompute.n > 0 =>
        /\ sunset < sunset_after_twilight
        /\ sunset_after_twilight <= sunrise_before_twilight
        /\ sunrise_before_twilight < sunrise

C7_TeardownNeverRaises ==
    /\ (phase = "Night" /\ tether # "unbound") => pc # "crashed"
    /\ pc = "tether_poll2" => tetherSignals = <<"SIGTERM", "SIGKILL">>

\* C8: a tether that fails to start is answered with gphoto2 --reset and
\* does not end the session: the program goes on to the normal shutdown.
C8_LaunchFailureNotFatal ==
    \A i \in 1..Len(launches) :
        launches[i].outcome # "started" =>
            /\ launches[i].reset
            /\ pc # "crashed"
            /\ Terminated => result \in {"execvp", "returned_True"}

TransitionLogs == {"Gone_clear", "Gone_clearing", "Gone_cloudy",
                   "Gone_undefined_cloud_status"}

\* C10: a night iteration that has a previous iteration writes a transition
\* log line if and only if its status differs from the status of the
\* previous iteration.
C10_TransitionLogOnlyOnChange ==
    \A i \in 1..Len(nightLog) :
        LET r == nightLog[i]
        IN  r.previous # InitialInternalStatus =>
              ((r.logs \cap TransitionLogs # {}) <=> (r.status # r.previous))

\* C11: when a night iteration has ended, the image its acquisition
\* returned has been handed to handle_new_image, so that the disk check
\* and the pointer update have run for it before the next iteration.
C11_NightIterationHandlesImage ==
    (pc = "night_loop" /\ nightLog # <<>>) => lastHandle.called

\* the calls that go to the microcontroller over the serial channel
DriverCmds ==
    {"shutter_on", "shutter_off", "single_image", "camera_on", "camera_off",
     "video_on", "video_off", "cond_on", "cond_off", "wait_for_camera_ready",
     "update_GPS_location"}

\* in the calls c of one step, no driver call comes after the close of the
\* channel
NoDriverAfterClose(c) ==
    \A i, j \in 1..Len(c) :
        (c[i] = "ser_close" /\ c[j] \in DriverCmds) => j < i

\* C12: the channel is open when the waiting loop begins; it is closed only
\* by the sunrise shutdown or by the fault shutdown of handle_new_image;
\* once it is closed it stays closed, it is not closed a second time and no
\* driver call is made any more.
C12_NoCommandAfterClose ==
    /\ [](pc # "initialise" => ser # "none")
    /\ [](ser = "closed" =>
            NoDriverAfterClose(cmds) /\ Count(cmds, "ser_close") <= 1)
    /\ [][/\ (ser # "closed" /\ ser' = "closed") =>
              (\/ pc = "sunrise"
               \/ pc \in {"evening_handle", "morning_handle"}
                    /\ lastHandle'.fault)
          /\ ser = "closed" =>
              (/\ ser' = "closed"
               /\ (<<pc, now>>' # <<pc, now>>) =>
                     (Range(cmds') \cap (DriverCmds \cup {"ser_close"}) = {}))
         ]_vars

C12_Witness ==
    ser = "closed" /\ pc = "done" /\ "rename_RAW_all" \in Range(cmds)

\* C13: the waiting loop is entered once, after the first computation, and
\* left once; it is left only when now >= sunset, with the value sunset has
\* at that moment, and it leads to the switch-on before the evening block;
\* while now < sunset main_function stays in the loop and every pass of
\* the loop sleeps 30 s.
C13_WaitLeftOnceAtSunset ==
    [][/\ (pc = "wait" /\ pc' # "wait") =>
              (now >= sunset /\ pc' = "evening")
       /\ (pc = "wait" /\ now < sunset /\ <<pc, now>>' # <<pc, now>>) =>
              (pc' = "wait" /\ now' = now + 30 /\ polls' = polls + 1)
       /\ (pc # "wait" /\ pc' = "wait") =>
              (pc = "compute" /\ polls = 0 /\ lastCompute.n = 0)
      ]_vars

C13_Witness ==
    /\ pc = "evening" /\ recomputes = 1 /\ polls > 1
    /\ lastCompute.at > 0 /\ ~lastCompute.late_start_logged
    /\ now >= sunset /\ now - SwitchOnSleep - PollSleep < sunset

\* the four boundaries of main_function
Boundaries ==
    <<sunset, sunset_after_twilight, sunrise_before_twilight, sunrise>>

\* C14: a pass of the waiting loop queries the GPS if and only if there is
\* no lock and the run is not a test run; the boundaries are computed again
\* only in a pass whose query turns no lock into a lock; once there is a
\* lock it is kept, the GPS is not queried and the boundaries are not
\* computed any more: there is at most one recomputation.
C14_RecomputeOnlyOnNewFix ==
    /\ [](recomputes <= 1)
    /\ [][/\ (pc = "wait" /\ pc' = "wait" /\ now' # now) =>
              ("update_GPS_location" \in Range(cmds')
                   <=> (gps_lock = "N" /\ test_time = 0))
          /\ (pc # "compute" /\ <<Boundaries, lastCompute>>' # <<Boundaries, lastCompute>>) =>
              (/\ pc = "wait" /\ pc' = "wait"
               /\ gps_lock = "N" /\ gps_lock' # "N" /\ test_time = 0
               /\ recomputes' = recomputes + 1)
          /\ (pc # "compute" /\ gps_lock' # gps_lock) =>
              <<Boundaries, lastCompute>>' # <<Boundaries, lastCompute>>
          /\ gps_lock # "N" => gps_lock' = gps_lock
         ]_vars

C14_Witness ==
    /\ pc = "wait" /\ recomputes = 1 /\ gps_lock = "Y" /\ polls > 1
    /\ cmds = <<>> /\ lastCompute.n = 2 /\ lastCompute.at < now

\* the positions of main_function inside the two twilight blocks
TwilightPcs ==
    {"evening_tether", "evening_loop", "evening_handle",
     "morning_tether", "morning_loop", "morning_handle"}

\* C15: in a test run with test_time = T the boundaries are sunset = now +
\* 30 s, sunrise = sunset + T, sunset_after_twilight = sunset and
\* sunrise_before_twilight = sunrise; the twilight blocks are never entered
\* and no twilight tether is started; the night loop makes at least one
\* iteration, starts an iteration whenever now < sunrise and is left only
\* when now >= sunrise.
C15_TestRunBoundaries ==
    /\ []((test_time # 0 /\ lastCompute.n > 0) =>
            /\ test_time >= 180
            /\ sunset = lastCompute.at + 30
            /\ sunrise = sunset + test_time
            /\ sunset_after_twilight = sunset
            /\ sunrise_before_twilight = sunrise
            /\ pc \notin TwilightPcs
            /\ phase \notin {"EveningTwilight", "MorningTwilight"}
            /\ \A i \in 1..Len(launches) : launches[i].which = "night"
            /\ pc = "tether_poll" =>
                 (cloud_status_internal = CLEAR /\ now >= sunrise))
    /\ [][(test_time # 0 /\ pc = "night_loop" /\ <<pc, now>>' # <<pc, now>>) =>
              IF now < sunrise
              THEN /\ pc' = "night_loop"
                   /\ "shutter_on" \in Range(cmds')
                   /\ Len(nightLog') = Len(nightLog) + 1
              ELSE /\ pc' = "tether_poll"
                   /\ cmds' = <<>>
         ]_vars

C15_Witness ==
    /\ test_time = 240 /\ pc = "night_loop" /\ Len(nightLog) = 2
    /\ now >= sunrise /\ launches # <<>>
    /\ sunset = 30 /\ sunrise = 270

\* C16 as claimed: in a normal run, with the sunset T and the sunrise R of
\* generate_sun_and_moon and a leeway of L minutes, the boundaries are
\* sunset = T + L, sunset_after_twilight = T + L + 10 min,
\* sunrise_before_twilight = R - L - 10 min and sunrise = R - L.
C16_BoundariesFromSunTimes ==
    (test_time = 0 /\ lastCompute.n > 0) =>
        LET T == lastCompute.rawSunset
            R == lastCompute.rawSunrise
            L == cfg.sun_leeway * 60
        IN  /\ sunset = T + L
            /\ sunset_after_twilight = T + L + 600
            /\ sunrise_before_twilight = R - L - 600
            /\ sunrise = R - L

\* C16 as amended: in a normal run sunset_after_twilight = T + L + 10 min,
\* sunrise_before_twilight = R - L - 10 min and sunrise = R - L; the sunset
\* is T + L when T + L < R - L, and otherwise it is the instant of the
\* computation + 30 s while the other three keep their values.  Without
\* the override and with L = 10 the evening block runs from T + 10 min on
\* and sunset_after_twilight is T + 20 min.
C16_BoundariesUnlessLateStart ==
    (test_time = 0 /\ lastCompute.n > 0) =>
        LET T == lastCompute.rawSunset
            R == lastCompute.rawSunrise
            L == cfg.sun_leeway * 60
        IN  /\ sunset_after_twilight = T + L + 600
            /\ sunrise_before_twilight = R - L - 600
            /\ sunrise = R - L
            /\ lastCompute.late_start_logged <=> (T + L >= R - L)
            /\ sunset = IF T + L >= R - L THEN lastCompute.at + 30
                        ELSE T + L
            /\ (cfg.sun_leeway = 10 /\ T + L < R - L) =>
                  /\ sunset = T + 600
                  /\ sunset_after_twilight = T + 1200
                  /\ phase = "EveningTwilight" => now >= T + 600

C16_Witness ==
    /\ test_time = 0 /\ cfg.sun_leeway = 10 /\ pc = "evening_handle"
    /\ ~lastCompute.late_start_logged
    /\ sunset = lastCompute.rawSunset + 600
    /\ sunset_after_twilight = lastCompute.rawSunset + 1200
    /\ now < sunset_after_twilight

\* C17: every call of high_acq, with every interval from 0 on, makes one
\* shutter_on, then one shutter_off, then the rename pass, then the
\* thumbnail pass, then fetches the latest image, in this order; it
\* returns what get_latest_imagefile returned, the not-found value
\* included, and does not raise; the shutter is off when it returns.
C17_HighAcqOrder ==
    (nightLog # <<>> /\ nightLog[Len(nightLog)].acq = "high") =>
        /\ cmds = <<"shutter_on", "shutter_off", "rename_RAW_all",
                    "make_all_thumb", "get_latest_imagefile">>
        /\ nightLog[Len(nightLog)].slept = cfg.time_checking_clear
        /\ hw.shutter = "off"
        /\ imgfile \in GetLatestImagefile
        /\ pc = "acq" /\ result = "running"

C17_Witness ==
    /\ nightLog # <<>> /\ nightLog[Len(nightLog)].acq = "high"
    /\ nightLog[Len(nightLog)].slept = 0
    /\ imgfile = "missing" /\ cmds[1] = "shutter_on"

\* C18: every call of low_acq sleeps the duration configured for its
\* status, time_checking_cloudy for Cloudy and time_checking_clearing for
\* Clearing, then makes one single exposure, then the rename pass, then the
\* thumbnail pass, then fetches the latest image and returns it; it never
\* calls shutter_on or shutter_off.
C18_LowAcqSleepsThenSingleImage ==
    (nightLog # <<>> /\ nightLog[Len(nightLog)].acq = "low") =>
        LET r == nightLog[Len(nightLog)]
        IN  /\ r.status = CLOUDY => r.slept = cfg.time_checking_cloudy
            /\ r.status = CLEARING => r.slept = cfg.time_checking_clearing
            /\ cmds = <<"single_image", "rename_RAW_all", "make_all_thumb",
                        "get_latest_imagefile">>
            /\ Range(cmds) \cap {"shutter_on", "shutter_off"} = {}
            /\ imgfile \in GetLatestImagefile
            /\ pc = "acq" /\ result = "running"

C18_Witness ==
    /\ Len(nightLog) = 2
    /\ nightLog[1].acq = "low" /\ nightLog[1].status = CLEARING
    /\ nightLog[1].slept = 180
    /\ nightLog[2].acq = "low" /\ nightLog[2].status = CLOUDY
    /\ nightLog[2].slept = 1
    /\ now = 181 /\ cmds[1] = "single_image"

\* C19: for every image whose file exists while the disk is not full,
\* handle_new_image writes the last-image pointer; a cloud-detector
\* snapshot is neither renamed nor thumbnailed; a capture is renamed, and
\* thumbnailed when it is a raw file or a .jpg that is not a thumbnail.
C19_PointerOnEveryHandledImage ==
    (lastHandle.called /\ lastHandle.img # "missing" /\ ~lastHandle.full) =>
        /\ lastHandle.pointer
        /\ lastHandle.img = "cloudy_img" =>
              (~lastHandle.renamed /\ ~lastHandle.thumbed)
        /\ lastHandle.img \in {"raw", "jpg"} =>
              (lastHandle.renamed /\ lastHandle.thumbed)
        /\ lastHandle.img = "thumb.jpg" =>
              (lastHandle.renamed /\ ~lastHandle.thumbed)

\* C20: when time advances and every call returns, the session reaches the
\* Shutdown phase, whatever the cloud statuses, the GPS fixes and the
\* outcomes of the tethers are.
C20_EventuallyShutdown == <>(phase = "Shutdown")

\* C21: the fault shutdown makes its calls in the order shutter off, fan
\* off, wait for the camera, video off, camera off, join of the jobs, close
\* of the channel; it makes no download; the close succeeds and the
\* procedure returns to handle_new_image.
C21_FaultShutdownOrder ==
    diskFullSeen =>
        /\ Len(afterFull) >= 7
        /\ SubSeq(afterFull, 1, 7) =
             <<"shutter_off", "cond_off", "wait_for_camera_ready",
               "video_off", "camera_off", "join_jobs", "ser_close">>
        /\ "camera_download_images" \notin Range(SubSeq(afterFull, 1, 7))
        /\ ser = "closed"
        /\ result # "NameError"

\* in the calls c, a close of the channel comes only after a join of the jobs
JoinedBeforeClose(c) ==
    \A i \in 1..Len(c) :
        c[i] = "ser_close" => \E j \in 1..(i - 1) : c[j] = "join_jobs"

\* C22: the sunrise shutdown makes its calls in the order shutter off,
\* video off when there is a video device, wait for the camera, the drain
\* sleep of 10 s, join of the jobs, download of the remaining images,
\* camera off, fan off, close of the channel, and the rename pass follows;
\* on the sunrise path and on the fault path the jobs are joined before
\* the channel is closed.
C22_ShutdownOrder ==
    /\ [](pc = "final" =>
            /\ cmds = <<"shutter_off">>
                       \o (IF cfg.video_device THEN <<"video_off">> ELSE <<>>)
                       \o <<"wait_for_camera_ready", "join_jobs",
                            "camera_download_images", "camera_off",
                            "cond_off", "ser_close">>
            /\ ser = "closed")
    /\ [](pc = "done" => cmds[1] = "rename_RAW_all")
    /\ [](JoinedBeforeClose(cmds) /\ JoinedBeforeClose(afterFull))
    /\ [](diskFullSeen => "join_jobs" \in Range(afterFull))
    /\ [][(pc = "sunrise" /\ pc' # pc) => (pc' = "final" /\ now' = now + 10)]_vars

C22_Witness ==
    /\ pc = "final" /\ test_time = 0 /\ cfg.video_device
    /\ cmds[2] = "video_off" /\ ser = "closed"

\* the calls that process images
HandlingCmds ==
    {"rename_RAW_all", "make_all_thumb", "get_latest_imagefile",
     "rename_RAW", "make_thumb", "write_last_image_file"}

\* the state of the shutter trigger after the calls c, made from state s0
RECURSIVE ShutterAfter(_, _)
ShutterAfter(s0, c) ==
    IF c = <<>> THEN s0
    ELSE IF c[Len(c)] = "shutter_on" THEN "on"
    ELSE IF c[Len(c)] = "shutter_off" THEN "off"
    ELSE ShutterAfter(s0, SubSeq(c, 1, Len(c) - 1))

\* C23: the shutter trigger is off whenever a rename pass, a thumbnail pass
\* or handle_new_image runs and whenever the phase changes; shutter_on is
\* never issued while the trigger is on; the image of an iteration has
\* been handled before the trigger of the next iteration is issued.
C23_NoOverlap ==
    /\ [](pc \in {"evening_handle", "morning_handle"} => hw.shutter = "off")
    /\ [][(<<pc, now>>' # <<pc, now>>) =>
            /\ \A i \in 1..Len(cmds') :
                 /\ cmds'[i] \in HandlingCmds =>
                      ShutterAfter(hw.shutter, SubSeq(cmds', 1, i - 1)) = "off"
                 /\ cmds'[i] = "shutter_on" =>
                      ShutterAfter(hw.shutter, SubSeq(cmds', 1, i - 1)) # "on"
            /\ hw'.shutter = ShutterAfter(hw.shutter, cmds')
            /\ phase' # phase => (hw.shutter = "off" /\ hw'.shutter = "off")
            /\ pc \in {"evening_handle", "morning_handle"} =>
                 (lastHandle'.called /\ "shutter_on" \notin Range(cmds'))
            /\ (pc \in {"evening_loop", "morning_loop"}
                   /\ "shutter_on" \in Range(cmds')) =>
                 pc' \in {"evening_handle", "morning_handle"}
         ]_vars

C23_Witness ==
    /\ pc = "evening_handle" /\ cmds # <<>> /\ cmds[1] = "shutter_on"
    /\ hw.shutter = "off" /\ now >= sunset + 2 * IntervalTime

\* C24: two night iterations that have the same cloud status run the same
\* acquisition procedure with the same sleep and the same calls, whatever
\* status each of them remembers from its previous iteration.
C24_BranchIgnoresPreviousStatus ==
    /\ \A i, j \in 1..Len(nightLog) :
         nightLog[i].status = nightLog[j].status =>
             /\ nightLog[i].acq = nightLog[j].acq
             /\ nightLog[i].slept = nightLog[j].slept
    /\ (pc = "night_loop" /\ nightLog # <<>>) =>
         cmds = (IF nightLog[Len(nightLog)].acq = "high"
                 THEN HighAcqCmds ELSE LowAcqCmds)

C24_Witness ==
    /\ pc = "night_loop" /\ Len(nightLog) >= 4
    /\ \E i, j \in 1..Len(nightLog) :
         /\ nightLog[i].status = CLEAR /\ nightLog[j].status = CLEAR
         /\ nightLog[i].previous = CLOUDY /\ nightLog[j].previous = CLEAR
    /\ \E i, j \in 1..Len(nightLog) :
         /\ nightLog[i].status = CLOUDY /\ nightLog[j].status = CLOUDY
         /\ nightLog[i].previous = CLEAR
         /\ nightLog[j].previous = InitialInternalStatus

\* C25: a night iteration whose status is none of the three known ones
\* logs Gone_undefined_cloud_status when it is the first of a run of such
\* iterations, also when it is the first iteration of the night, and
\* Still_undefined_cloud_status otherwise; it never logs Gone_clear.
C25_UnknownFirstThenRepeated ==
    \A i \in 1..Len(nightLog) :
        LET r == nightLog[i]
            firstOfRun == \/ r.previous \in {CLEAR, CLEARING, CLOUDY}
                          \/ r.previous = InitialInternalStatus
        IN  r.status \notin {CLEAR, CLEARING, CLOUDY} =>
              /\ firstOfRun => r.logs = {"Gone_undefined_cloud_status"}
              /\ ~firstOfRun => r.logs = {"Still_undefined_cloud_status"}
              /\ "Gone_clear" \notin r.logs

\* gphoto2 --capture-tethered Ns ends N seconds after its start: a twilight
\* tether that was started is alive until the instant of its launch plus
\* the duration it was given
TwilightTetherAlive(l) ==
    /\ l.which \in {"evening", "morning"}
    /\ l.outcome = "started"
    /\ now < l.at + l.secs

\* the night tether has no duration: it is alive until it exits on its own
\* or is killed
NightTetherAlive ==
    tether = "alive" /\ "SIGKILL" \notin Range(tetherSignals)

\* the number of tethers that are alive
AliveTethers ==
    Cardinality({i \in 1..Len(launches) : TwilightTetherAlive(launches[i])})
    + (IF NightTetherAlive THEN 1 ELSE 0)

\* the gphoto2 calls of the cam module: settings and downloads
CameraCmds ==
    {"camera_set_quality_JPG", "camera_set_quality_RAW", "camera_set_shutter",
     "camera_set_iso", "camera_set_time", "camera_download_images"}

\* C26: at most one tether is alive at any time; a step that makes a camera
\* setting or a download starts with no tether alive; the night tether
\* has been started before the first night iteration; SIGTERM and SIGKILL
\* have been sent to it before the morning block begins.
C26_TethersDisjointFromSettings ==
    /\ [](AliveTethers <= 1)
    /\ []((pc = "night_loop" /\ nightLog # <<>>) =>
            \E i \in 1..Len(launches) :
                launches[i].which = "night" /\ launches[i].outcome = "started")
    /\ [](pc \in {"morning", "morning_tether", "morning_loop",
                   "morning_handle", "sunrise", "final", "done"} =>
            (tetherSignals = <<"SIGTERM", "SIGKILL">> /\ ~NightTetherAlive))
    /\ [][((<<pc, now>>' # <<pc, now>>)
             /\ Range(cmds') \cap CameraCmds # {}) => AliveTethers = 0]_vars

C26_Witness ==
    /\ pc = "final" /\ test_time = 0 /\ Len(launches) = 3
    /\ \A i \in 1..3 : launches[i].outcome = "started" /\ launches[i].secs > 0
    /\ AliveTethers = 0

\* the calls that make an exposure
AcquisitionCmds == {"shutter_on", "single_image"}

\* a step of main_function at the loop position at: it starts an iteration,
\* going to inLoop, when now < boundary, and leaves the loop, going to
\* after, when now >= boundary
LoopGuarded(at, boundary, inLoop, after) ==
    (pc = at /\ <<pc, now>>' # <<pc, now>>) =>
        IF now < boundary
        THEN /\ pc' = inLoop
             /\ Range(cmds') \cap AcquisitionCmds # {}
             /\ now' > now
        ELSE /\ pc' = after
             /\ Range(cmds') \cap AcquisitionCmds = {}

\* C27: in the evening loop, the night loop and the morning loop an
\* iteration starts only when now is before the end boundary of the loop,
\* sunset_after_twilight, sunrise_before_twilight and sunrise, and the loop
\* is left only when now has reached it; a loop whose boundary has passed
\* when it is reached makes no iteration.
C27_LoopsGuardedByBoundaries ==
    [][/\ LoopGuarded("evening_loop", sunset_after_twilight,
                      "evening_handle", "night")
       /\ LoopGuarded("night_loop", sunrise_before_twilight,
                      "night_loop", "tether_poll")
       /\ LoopGuarded("morning_loop", sunrise, "morning_handle", "sunrise")
       /\ (Range(cmds') \cap AcquisitionCmds # {} /\ <<pc, now>>' # <<pc, now>>) =>
              pc \in {"evening_loop", "night_loop", "morning_loop"}
      ]_vars

C27_Witness ==
    /\ pc = "tether_poll" /\ test_time = 0
    /\ cloud_status_internal = InitialInternalStatus
    /\ now - NightExitSleep >= sunrise_before_twilight
    /\ Len(launches) = 2 /\ launches[1].secs > 0

\* C28: every twilight tether, evening or morning, is given the whole
\* seconds left until the end boundary of its loop, and that number is not
\* negative, whenever the program was started and also after a late-start
\* override.
C28_TwilightDurationNonNegative ==
    \A i \in 1..Len(launches) :
        launches[i].which \in {"evening", "morning"} =>
            /\ launches[i].secs = launches[i].boundary - launches[i].at
            /\ launches[i].secs >= 0

====
